---- MODULE Spec2Model ----
(***************************************************************************)
(* A model of memfs, the in-memory FUSE file system: the entity tree       *)
(* (Dir.Children), file buffers (File.Data), the FileSystem counters and   *)
(* the inode Sequence.  Every handler is one action; its locked region is  *)
(* executed atomically, as the FileSystem mutex makes it.  The concurrent  *)
(* specification runs the handlers in threads, interleaved at their lock   *)
(* and unlock operations and at the reads they make without the lock.      *)
(***************************************************************************)
EXTENDS Integers, Sequences, FiniteSets, TLC

\* ------------------------------------------------------------------ bounds
\* uint64 is modelled as W-bit unsigned arithmetic.
W == 4
Mod == 2 ^ W
\* At most MaxNodes nodes are ever allocated after the root in the tree
\* specification, MaxFiles in the file specification, MaxIds in the
\* specification of the identifiers.
MaxNodes == 2
MaxFiles == 1
MaxIds == 14
\* Offsets, payloads and sizes of requests stay within MaxSize bytes.
MaxSize == 2
\* Write stops growing files once nbytes has reached MaxBytes.
MaxBytes == 3
\* In the specification of overlapping writes they stay within MaxSpan bytes.
MaxSpan == 3
\* A Setattr request of the attribute specification marks at most MaxValid
\* fields as present.
MaxValid == 2

\* At most MaxRO nodes are allocated after the root in the read-only
\* specification, and its requests stay within MaxROSize bytes.
MaxRO == 1
MaxROSize == 1

\* At most MaxConc nodes are allocated after the root in the concurrent
\* specification, and its requests stay within MaxConcSize bytes.
MaxConc == 1
MaxConcSize == 1

\* A counter is taken below zero (wraps around) by at most MaxUnder.
MaxUnder == 1

\* At most MaxXNodes nodes are allocated after the root in the specification
\* of the extended attributes.
MaxXNodes == 1

\* Attrs.Blocks counts units of BlockUnit bytes.
BlockUnit == 512

\* The operations in progress at one time.
NThreads == 2
Threads == 1..NThreads

Names == {"a", "b"}
Byte == {0, 1}

\* ------------------------------------------------------------- constants
MinimumBound == 1
MaximumBound == Mod - 2

Root == 1
Nil == 0

VARIABLES
    nodes,      \* pointer -> Node (with the Dir / File part)
    nalloc,     \* number of nodes allocated so far (the pointer last handed out)
    Sequence,   \* FileSystem.Sequence
    nfiles,     \* FileSystem.nfiles
    ndirs,      \* FileSystem.ndirs
    nbytes,     \* FileSystem.nbytes
    readonly,   \* FileSystem.readonly
    locked,     \* FileSystem.Mutex is held with no operation in its locked region
    last,       \* the last completed call: operation, arguments, result
    held,       \* nodes a caller made with Init and holds, outside the tree
    th,         \* the operation each thread is in and its place in it
    seq,        \* a stand-alone sequence.Sequence
    issued      \* what the stand-alone Sequence has returned so far

vars == <<nodes, nalloc, Sequence, nfiles, ndirs, nbytes, readonly, locked, held, last, seq,
          issued, th>>
fsvars == <<nodes, nalloc, Sequence, nfiles, ndirs, nbytes, readonly, locked, held>>

\* ---------------------------------------------------------------- uint64
Wrap(x) == x % Mod

\* int(x) of a uint64 x: the same bits read as a signed integer.
ToInt(x) == IF x >= Mod \div 2 THEN x - Mod ELSE x

\* Signed subtraction as the machine does it (wraps around).
IntSub(a, b) == ToInt(Wrap(ToInt(a) - ToInt(b) + Mod))

\* How far below zero the counter value c stands, read as a wrapped uint64.
Under(c) == IF c >= Mod \div 2 THEN Mod - c ELSE 0

\* -------------------------------------------------------------- Sequence
\* Sequence.Init with three parameters (min, max, step); err = TRUE when Init
\* returns an error and leaves the Sequence uninitialized.
SequenceInit(min, max, step) ==
    IF step = 0 THEN [err |-> TRUE]
    ELSE IF max < min THEN [err |-> TRUE]
    ELSE IF min < MinimumBound \/ max > MaximumBound THEN [err |-> TRUE]
    ELSE IF IntSub(min, step) < 0 THEN [err |-> TRUE]
    ELSE [err |-> FALSE,
          s |-> [current |-> Wrap(min - step + Mod), increment |-> step,
                 minvalue |-> min, maxvalue |-> max]]

\* sequence.New(): no parameters, the defaults.
SequenceNew ==
    [current |-> Wrap(MinimumBound - 1 + Mod), increment |-> 1,
     minvalue |-> MinimumBound, maxvalue |-> MaximumBound]

\* Sequence.Next: the new state, the value returned and the error.
SequenceNext(s) ==
    LET c == Wrap(s.current + s.increment)
        t == [s EXCEPT !.current = c]
    IN  IF c < s.minvalue THEN [s |-> t, val |-> 0, err |-> "minimum"]
        ELSE IF c > s.maxvalue THEN [s |-> t, val |-> 0, err |-> "maximum"]
        ELSE [s |-> t, val |-> c, err |-> "nil"]

\* ------------------------------------------------------------------ nodes
NoChildren == [k \in {} |-> Nil]

\* make(XAttr)
NoXAttrs == [k \in {} |-> <<>>]

\* Node.Init, with Dir.Init / File.Init: the ID is whatever Next returned, its
\* error is dropped.  Data is the slice's content, Spare the rest of its
\* backing array (cap(Data) = Len(Data) + Len(Spare)).  Mode stands for the
\* attributes a Setattr request sets (the permission bits, 0 at first here).
NodeInit(name, isDir, parent, id) ==
    [isDir |-> isDir, ID |-> id, Name |-> name, Parent |-> parent,
     Children |-> NoChildren, Data |-> <<>>, Spare |-> <<>>, Size |-> 0,
     Mode |-> 0, Blocks |-> 0, XAttrs |-> NoXAttrs,
     Atime |-> 0, Mtime |-> 0, Crtime |-> 0, Uid |-> 0, Gid |-> 0, Flags |-> 0]

Kids(nds, p) == {nds[p].Children[k] : k \in DOMAIN nds[p].Children}

Succ(nds, p, up) ==
    Kids(nds, p) \cup (IF up /\ nds[p].Parent # Nil THEN {nds[p].Parent} ELSE {})

RECURSIVE Closure(_, _, _)
Closure(nds, S, up) ==
    LET T == S \cup UNION {Succ(nds, p, up) : p \in S}
    IN  IF T = S THEN S ELSE Closure(nds, T, up)

\* The nodes reachable from the root through Children.
Reachable(nds) == Closure(nds, {Root}, FALSE)

\* Nodes no reference leads to any more are gone (the garbage collector's
\* view): what stays is what the root and the nodes a caller holds reach
\* through Children and Parent.
Collect(nds) ==
    LET live == Closure(nds, {Root} \cup held, TRUE)
    IN  [p \in live |-> nds[p]]

Dirs == {p \in Reachable(nodes) : nodes[p].isDir}
Files == {p \in Reachable(nodes) : ~nodes[p].isDir}

\* The record of a stand-alone Sequence's results: the last value returned
\* without error and the one before it (0: none yet), and whether a call has
\* failed on the maximum bound.
NoneIssued == [cur |-> 0, prev |-> 0, failed |-> FALSE, erred |-> FALSE]

\* The arguments of a request: names (k, j), offset, payload, size; the ones
\* a handler does not take are left as here.
NoArgs == [k |-> "", j |-> "", off |-> 0, data |-> <<>>, size |-> 0]

\* A thread that is in no operation.
Idle == [at |-> "idle", holds |-> FALSE, op |-> "", n |-> Nil, a |-> NoArgs]

\* ------------------------------------------------------------------- Init
\* memfs.New: the Sequence with its defaults, the root directory (which takes
\* the first identifier), zero counters, readonly from the configuration.
InitFS ==
    /\ LET r == SequenceNext(SequenceNew)
       IN  /\ Sequence = r.s
           /\ nodes = [p \in {Root} |-> NodeInit("/", TRUE, Nil, r.val)]
    /\ nalloc = 1
    /\ nfiles = 0
    /\ ndirs = 0
    /\ nbytes = 0
    /\ readonly \in BOOLEAN
    /\ locked = FALSE
    /\ held = {}
    /\ th = [t \in Threads |-> Idle]
    /\ last = [op |-> "New", err |-> "nil"]
    /\ issued = NoneIssued

Init == InitFS /\ seq = SequenceNew

\* ------------------------------------------------------------ Dir methods
\* d.Children[name] = p
Insert(children, name, p) ==
    [k \in DOMAIN children \cup {name} |-> IF k = name THEN p ELSE children[k]]

\* The node table after directory d has allocated the new node `new` at
\* pointer f and stored it under new.Name.
AddChild(d, f, new) ==
    [p \in DOMAIN nodes \cup {f} |->
        IF p = f THEN new
        ELSE IF p = d
        THEN [nodes[d] EXCEPT !.Children = Insert(nodes[d].Children, new.Name, f)]
        ELSE nodes[p]]

\* Dir.Create(req.Name = name) on directory d; limit bounds the allocations.
Create(d, name, limit) ==
    /\ ~locked
    /\ UNCHANGED <<readonly, held, locked, seq, issued>>
    /\ IF readonly
       THEN /\ last' = [op |-> "Create", err |-> "EPERM"]
            /\ UNCHANGED <<nodes, nalloc, Sequence, nfiles, ndirs, nbytes>>
       ELSE /\ nalloc <= limit
            /\ LET r == SequenceNext(Sequence)
                   f == nalloc + 1
               IN  /\ Sequence' = r.s
                   /\ nalloc' = f
                   /\ nodes' = Collect(AddChild(d, f, NodeInit(name, FALSE, d, r.val)))
                   /\ nfiles' = Wrap(nfiles + 1)
                   /\ last' = [op |-> "Create", err |-> "nil"]
            /\ UNCHANGED <<ndirs, nbytes>>

\* Dir.Mkdir(req.Name = name) on directory d; limit bounds the allocations.
Mkdir(d, name, limit) ==
    /\ ~locked
    /\ UNCHANGED <<readonly, held, locked, seq, issued>>
    /\ IF readonly
       THEN /\ last' = [op |-> "Mkdir", err |-> "EPERM"]
            /\ UNCHANGED <<nodes, nalloc, Sequence, nfiles, ndirs, nbytes>>
       ELSE /\ nalloc <= limit
            /\ LET r == SequenceNext(Sequence)
                   c == nalloc + 1
               IN  /\ Sequence' = r.s
                   /\ nalloc' = c
                   /\ nodes' = Collect(AddChild(d, c, NodeInit(name, TRUE, d, r.val)))
                   /\ ndirs' = Wrap(ndirs + 1)
                   /\ last' = [op |-> "Mkdir", err |-> "nil"]
            /\ UNCHANGED <<nfiles, nbytes>>

\* Dir.Remove without the test for a directory that still has children.
RemoveErrUnchecked(d, name) ==
    IF readonly THEN "EPERM"
    ELSE IF name \notin DOMAIN nodes[d].Children THEN "EEXIST"
    ELSE "nil"

\* The error Dir.Remove(req.Name = name) on directory d returns: the
\* read-only test, the missing entry, the directory that still has children.
RemoveErr(d, name) ==
    IF readonly THEN "EPERM"
    ELSE IF name \notin DOMAIN nodes[d].Children THEN "EEXIST"
    ELSE IF /\ nodes[nodes[d].Children[name]].isDir
            /\ DOMAIN nodes[nodes[d].Children[name]].Children # {}
    THEN "EIO"
    ELSE "nil"

\* delete(d.Children, name) that empties the whole map.
DeleteAll(children, name) == NoChildren

\* delete(d.Children, name)
Delete(children, name) ==
    [k \in DOMAIN children \ {name} |-> children[k]]

\* Dir.Remove(req.Name = name) on directory d.
Remove(d, name) ==
    /\ ~locked
    /\ UNCHANGED <<readonly, held, locked, seq, issued, nalloc, Sequence, nbytes>>
    /\ last' = [op |-> "Remove", err |-> RemoveErr(d, name)]
    /\ IF RemoveErr(d, name) # "nil"
       THEN UNCHANGED <<nodes, nfiles, ndirs>>
       ELSE LET ent == nodes[d].Children[name]
            IN  /\ Under(Wrap((IF nodes[ent].isDir THEN ndirs ELSE nfiles) - 1 + Mod))
                     <= MaxUnder
                /\ nodes' = Collect([nodes EXCEPT ![d].Children = Delete(@, name)])
                /\ IF nodes[ent].isDir
                   THEN ndirs' = Wrap(ndirs - 1 + Mod) /\ UNCHANGED nfiles
                   ELSE nfiles' = Wrap(nfiles - 1 + Mod) /\ UNCHANGED ndirs

\* The assignments of Dir.Rename once the entity has been found, in the
\* order the code makes them: the Name, the insertion into dst under NewName,
\* the deletion of OldName.
RenameMove(nds, d, ent, OldName, dst, NewName) ==
    LET n1 == [nds EXCEPT ![ent].Name = NewName]
        n2 == [n1 EXCEPT ![dst].Children = Insert(@, NewName, ent)]
    IN  [n2 EXCEPT ![dst].Children = Delete(@, OldName)]

\* Dir.Rename(req.OldName, newDir, req.NewName) on directory d; newDir is any
\* node of the tree.
Rename(d, OldName, newDir, NewName) ==
    /\ ~locked
    /\ UNCHANGED <<readonly, held, locked, seq, issued, nalloc, Sequence, nfiles, ndirs, nbytes>>
    /\ LET call == [op |-> "Rename"]
       IN  IF readonly
           THEN /\ last' = call @@ [err |-> "EPERM"]
                /\ UNCHANGED nodes
           ELSE IF ~nodes[newDir].isDir
           THEN /\ last' = call @@ [err |-> "EEXIST"]
                /\ UNCHANGED nodes
           ELSE IF OldName \notin DOMAIN nodes[d].Children
           THEN /\ last' = call @@ [err |-> "EEXIST"]
                /\ UNCHANGED nodes
           ELSE LET ent == nodes[d].Children[OldName]
                IN  /\ nodes' = Collect(RenameMove(nodes, d, ent, OldName, newDir, NewName))
                    /\ last' = call @@ [err |-> "nil"]

\* Dir.Lookup(name) on directory d.
Lookup(d, name) ==
    /\ ~locked
    /\ UNCHANGED fsvars
    /\ UNCHANGED <<seq, issued>>
    /\ IF name \in DOMAIN nodes[d].Children
       THEN last' = [op |-> "Lookup", err |-> "nil", res |-> nodes[d].Children[name]]
       ELSE last' = [op |-> "Lookup", err |-> "ENOENT"]

\* ----------------------------------------------------------- File methods
Min(a, b) == IF a < b THEN a ELSE b

\* make([]byte, n)
Zeros(n) == [i \in 1..n |-> 0]

\* copy(dst[off:], src): src laid over dst from index off (0-based).
CopyAt(dst, off, src) ==
    [i \in 1..Len(dst) |-> IF i > off /\ i <= off + Len(src) THEN src[i - off] ELSE dst[i]]

\* File.Write that allocates the buffer anew for every write, cutting the
\* file at the end of the payload.
WriteDataTruncates(n, off, data) ==
    LET olen == Len(n.Data)
        lim == Wrap(off + Len(data))
        to == Min(off, olen)
    IN  [n EXCEPT !.Data = CopyAt(CopyAt(Zeros(lim), 0, SubSeq(n.Data, 1, to)), off, data),
                  !.Spare = <<>>,
                  !.Size = lim]

\* File.Write that does not copy the old content into the buffer it grows.
WriteDataDropsOld(n, off, data) ==
    LET olen == Len(n.Data)
        lim == Wrap(off + Len(data))
    IN  IF lim > olen
        THEN [n EXCEPT !.Data = CopyAt(Zeros(lim), off, data),
                       !.Spare = <<>>,
                       !.Size = lim]
        ELSE [n EXCEPT !.Data = CopyAt(n.Data, off, data)]

\* The buffer part of File.Write: the node after the write of data at off.
WriteData(n, off, data) ==
    LET olen == Len(n.Data)
        lim == Wrap(off + Len(data))
        to == Min(off, olen)
    IN  IF lim > olen
        THEN [n EXCEPT !.Data = CopyAt(CopyAt(Zeros(lim), 0, SubSeq(n.Data, 1, to)), off, data),
                       !.Spare = <<>>,
                       !.Size = lim]
        ELSE [n EXCEPT !.Data = CopyAt(n.Data, off, data)]

\* The growth of File.Write taken to be the whole new length.
WriteGrowthWhole(n, off, data) ==
    LET olen == Len(n.Data)
        lim == Wrap(off + Len(data))
    IN  IF lim > olen THEN lim ELSE 0

\* The growth File.Write adds to nbytes.
WriteGrowth(n, off, data) ==
    LET olen == Len(n.Data)
        lim == Wrap(off + Len(data))
    IN  IF lim > olen THEN lim - olen ELSE 0

\* File.Write without the read-only test.
WriteUnchecked(f, off, data) ==
    /\ ~locked
    /\ UNCHANGED <<readonly, held, locked, seq, issued, nalloc, Sequence, nfiles, ndirs>>
    /\ nbytes + WriteGrowth(nodes[f], off, data) <= MaxBytes
    /\ nodes' = [nodes EXCEPT ![f] = WriteData(@, off, data)]
    /\ nbytes' = Wrap(nbytes + WriteGrowth(nodes[f], off, data))
    /\ last' = [op |-> "Write", err |-> "nil", res |-> Len(data),
                grew |-> WriteGrowth(nodes[f], off, data) > 0,
                by |-> WriteGrowth(nodes[f], off, data)]

\* File.Write(req.Offset = off, req.Data = data) on file f.
Write(f, off, data) ==
    /\ ~locked
    /\ UNCHANGED <<readonly, held, locked, seq, issued, nalloc, Sequence, nfiles, ndirs>>
    /\ IF readonly
       THEN /\ last' = [op |-> "Write", err |-> "EPERM"]
            /\ UNCHANGED <<nodes, nbytes>>
       ELSE /\ nbytes + WriteGrowth(nodes[f], off, data) <= MaxBytes
            /\ nodes' = [nodes EXCEPT ![f] = WriteData(@, off, data)]
            /\ nbytes' = Wrap(nbytes + WriteGrowth(nodes[f], off, data))
            /\ last' = [op |-> "Write", err |-> "nil", res |-> Len(data),
                grew |-> WriteGrowth(nodes[f], off, data) > 0,
                by |-> WriteGrowth(nodes[f], off, data)]

\* The slice expression left out: the buffer stays as it is.
ResliceKept(n, size) == n

\* f.Data = f.Data[:size], for size within the capacity.
Reslice(n, size) ==
    LET full == n.Data \o n.Spare
    IN  [n EXCEPT !.Data = SubSeq(full, 1, size),
                  !.Spare = SubSeq(full, size + 1, Len(full))]

\* File.Setattr with req.Valid = SetattrSize, req.Size = size, on file f.  The
\* slice expression panics when size exceeds the capacity: Attrs.Size is then
\* already set and the lock is never released.  Otherwise Node.Setattr follows
\* and answers with the attributes.
FileSetattr(f, size) ==
    /\ ~locked
    /\ UNCHANGED <<readonly, held, seq, issued, nalloc, Sequence, nfiles, ndirs, nbytes>>
    /\ IF readonly
       THEN /\ last' = [op |-> "Setattr", err |-> "EPERM"]
            /\ UNCHANGED <<nodes, locked>>
       ELSE IF size > Len(nodes[f].Data) + Len(nodes[f].Spare)
       THEN /\ nodes' = [nodes EXCEPT ![f].Size = size]
            /\ locked' = TRUE
            /\ last' = [op |-> "Setattr", err |-> "panic"]
       ELSE /\ nodes' = [nodes EXCEPT ![f] = Reslice([@ EXCEPT !.Size = size], size)]
            /\ UNCHANGED locked
            /\ last' = [op |-> "Setattr", err |-> "nil",
                        res |-> Reslice([nodes[f] EXCEPT !.Size = size], size).Size]

\* File.Init(name, mode, parent = the root, fs) called by the holder of the
\* file system itself: the File takes an identifier and points to its parent,
\* and no directory lists it.  There is no lock and no read-only test here.
FileInit(name, limit) ==
    /\ ~locked
    /\ nalloc <= limit
    /\ UNCHANGED <<readonly, locked, seq, issued, nfiles, ndirs, nbytes>>
    /\ LET r == SequenceNext(Sequence)
           f == nalloc + 1
       IN  /\ Sequence' = r.s
           /\ nalloc' = f
           /\ held' = held \cup {f}
           /\ nodes' = [p \in DOMAIN nodes \cup {f} |->
                          IF p = f THEN NodeInit(name, FALSE, Root, r.val) ELSE nodes[p]]
    /\ last' = [op |-> "Init", err |-> "nil"]

\* The files there are: those of the tree and those a caller holds.
Handles == {p \in DOMAIN nodes : ~nodes[p].isDir}

\* File.Read with the end of the slice taken from the size alone, the offset
\* left out.
ReadDataNoOffset(n, off, size) ==
    LET full == n.Data \o n.Spare
        to == Min(size, n.Size)
    IN  IF off > to \/ to > Len(full)
        THEN [err |-> "panic", data |-> <<>>]
        ELSE [err |-> "nil", data |-> SubSeq(full, off + 1, to)]

\* What File.Read answers for req.Offset = off, req.Size = size: the slice
\* expression f.Data[off:to] panics when off is beyond to or to beyond the
\* capacity.
ReadData(n, off, size) ==
    LET full == n.Data \o n.Spare
        to == Min(Wrap(off + size), n.Size)
    IN  IF off > to \/ to > Len(full)
        THEN [err |-> "panic", data |-> <<>>]
        ELSE [err |-> "nil", data |-> SubSeq(full, off + 1, to)]

\* File.Read on file f.  The unlock is deferred: a panic releases the lock.
\* resp.Data is a slice of f.Data's array, not a copy: from records the file
\* and the index in the array where the slice starts.
Read(f, off, size) ==
    /\ ~locked
    /\ UNCHANGED fsvars
    /\ UNCHANGED <<seq, issued>>
    /\ last' = [op |-> "Read", err |-> ReadData(nodes[f], off, size).err,
                res |-> ReadData(nodes[f], off, size).data,
                from |-> [n |-> f, lo |-> off]]

\* What File.ReadAll answers: the buffer itself.
ReadAllData(n) == n.Data

\* File.ReadAll on file f: the slice f.Data itself is returned.
ReadAll(f) ==
    /\ ~locked
    /\ UNCHANGED fsvars
    /\ UNCHANGED <<seq, issued>>
    /\ last' = [op |-> "ReadAll", err |-> "nil", res |-> ReadAllData(nodes[f]),
                from |-> [n |-> f, lo |-> 0]]

\* File.Flush on file f.
Flush(f) ==
    /\ ~locked
    /\ UNCHANGED fsvars
    /\ UNCHANGED <<seq, issued>>
    /\ last' = [op |-> "Flush", err |-> IF readonly THEN "EPERM" ELSE "nil"]

\* ----------------------------------------------------------- Node methods
\* Node.Setattr with req.Valid = SetattrMode, req.Mode = mode, on node n (a
\* directory, or a file, whose Setattr hands a request without a size on to
\* this method after the same read-only test); it answers with the attributes.
NodeSetattr(n, mode) ==
    /\ ~locked
    /\ UNCHANGED <<readonly, held, locked, seq, issued, nalloc, Sequence, nfiles, ndirs, nbytes>>
    /\ IF readonly
       THEN /\ last' = [op |-> "NodeSetattr", err |-> "EPERM"]
            /\ UNCHANGED nodes
       ELSE /\ nodes' = [nodes EXCEPT ![n].Mode = mode]
            /\ last' = [op |-> "NodeSetattr", err |-> "nil", res |-> mode]

\* The bits of req.Valid, the ones whose field Node.Setattr stores, and the
\* values a field or the clock has.
ValidBits ==
    {"Handle", "Size", "Atime", "AtimeNow", "Mtime", "MtimeNow", "Mode", "Uid", "Gid",
     "LockOwner", "Bkuptime", "Chgtime", "Crtime", "Flags"}
Settable == {"Atime", "Mtime", "Mode", "Uid", "Gid", "Crtime", "Flags"}
FieldVals == {0, 1}
ValidSets == {V \in SUBSET ValidBits : Cardinality(V) <= MaxValid}
\* The clock is read only for the two bits that ask for the present time.
Clock(V) == IF V \cap {"AtimeNow", "MtimeNow"} = {} THEN {0} ELSE FieldVals
\* The Setattr requests: the bits, the values of the stored fields they mark,
\* and what the clock shows.
SetattrRequests ==
    UNION {{[Valid |-> V, val |-> val, now |-> now] :
               val \in [V \cap Settable -> FieldVals], now \in Clock(V)} : V \in ValidSets}

\* n.Attrs, the fuse.Attr of a node record.
Attrs(n) ==
    [Inode |-> n.ID, Size |-> n.Size, Blocks |-> n.Blocks, Atime |-> n.Atime,
     Mtime |-> n.Mtime, Crtime |-> n.Crtime, Mode |-> n.Mode, Uid |-> n.Uid,
     Gid |-> n.Gid, Flags |-> n.Flags]

\* One field of Node.Setattr: the request's value when its bit is set.
Pick(V, val, bit, old) == IF bit \in V THEN val[bit] ELSE old

\* Node.Setattr that sets the modification time on every call.
SetAttrsTouches(n, V, val, now) ==
    [n EXCEPT !.Atime  = IF "AtimeNow" \in V THEN now ELSE Pick(V, val, "Atime", @),
              !.Mtime  = now,
              !.Mode   = Pick(V, val, "Mode", @),
              !.Uid    = Pick(V, val, "Uid", @),
              !.Gid    = Pick(V, val, "Gid", @),
              !.Crtime = Pick(V, val, "Crtime", @),
              !.Flags  = Pick(V, val, "Flags", @)]

\* The assignments of Node.Setattr for the request with Valid = V and, for the
\* stored fields marked in V, the values val; now is time.Now().
SetAttrs(n, V, val, now) ==
    [n EXCEPT !.Atime  = IF "AtimeNow" \in V THEN now ELSE Pick(V, val, "Atime", @),
              !.Mtime  = IF "MtimeNow" \in V THEN now ELSE Pick(V, val, "Mtime", @),
              !.Mode   = Pick(V, val, "Mode", @),
              !.Uid    = Pick(V, val, "Uid", @),
              !.Gid    = Pick(V, val, "Gid", @),
              !.Crtime = Pick(V, val, "Crtime", @),
              !.Flags  = Pick(V, val, "Flags", @)]

\* Node.Setattr on node n with a whole request; resp.Attr is the result.
NodeSetattrRequest(n, V, val, now) ==
    /\ ~locked
    /\ UNCHANGED <<readonly, held, locked, seq, issued, nalloc, Sequence, nfiles, ndirs, nbytes>>
    /\ IF readonly
       THEN /\ last' = [op |-> "NodeSetattr", err |-> "EPERM"]
            /\ UNCHANGED nodes
       ELSE /\ nodes' = [nodes EXCEPT ![n] = SetAttrs(@, V, val, now)]
            /\ last' = [op |-> "NodeSetattr", err |-> "nil",
                        res |-> Attrs(SetAttrs(nodes[n], V, val, now))]

\* Setxattr that keeps the value a name already has.
SetxattrKeepsOld(n, name, val) ==
    /\ ~locked
    /\ UNCHANGED <<readonly, held, locked, seq, issued, nalloc, Sequence, nfiles, ndirs, nbytes>>
    /\ IF readonly
       THEN /\ last' = [op |-> "Setxattr", err |-> "EPERM"]
            /\ UNCHANGED nodes
       ELSE /\ nodes' = [nodes EXCEPT ![n].XAttrs =
                            [k \in DOMAIN @ \cup {name} |-> IF k \in DOMAIN @ THEN @[k] ELSE val]]
            /\ last' = [op |-> "Setxattr", err |-> "nil", to |-> [n |-> n, name |-> name]]

\* Node.Setxattr(req.Name = name, req.Xattr = val) on node n.
Setxattr(n, name, val) ==
    /\ ~locked
    /\ UNCHANGED <<readonly, held, locked, seq, issued, nalloc, Sequence, nfiles, ndirs, nbytes>>
    /\ IF readonly
       THEN /\ last' = [op |-> "Setxattr", err |-> "EPERM"]
            /\ UNCHANGED nodes
       ELSE /\ nodes' = [nodes EXCEPT ![n].XAttrs =
                            [k \in DOMAIN @ \cup {name} |-> IF k = name THEN val ELSE @[k]]]
            /\ last' = [op |-> "Setxattr", err |-> "nil", to |-> [n |-> n, name |-> name]]

\* Node.Removexattr(req.Name = name) on node n.
Removexattr(n, name) ==
    /\ ~locked
    /\ UNCHANGED <<readonly, held, locked, seq, issued, nalloc, Sequence, nfiles, ndirs, nbytes>>
    /\ IF readonly
       THEN /\ last' = [op |-> "Removexattr", err |-> "EPERM"]
            /\ UNCHANGED nodes
       ELSE IF name \in DOMAIN nodes[n].XAttrs
       THEN /\ nodes' = [nodes EXCEPT ![n].XAttrs = [k \in DOMAIN @ \ {name} |-> @[k]]]
            /\ last' = [op |-> "Removexattr", err |-> "nil"]
       ELSE /\ last' = [op |-> "Removexattr", err |-> "ErrNoXattr"]
            /\ UNCHANGED nodes

\* The caller of Write or Setxattr overwrites the bytes of the payload it
\* passed, after the call has returned.  Write has copied the payload
\* (copy(f.Data[off:lim], req.Data[:])); Setxattr has stored the slice itself
\* (n.XAttrs[req.Name] = req.Xattr), so the stored value is the caller's
\* array and changes with it.
PayloadChange(val) ==
    /\ last.op \in {"Write", "Setxattr"} /\ last.err = "nil"
    /\ UNCHANGED <<readonly, held, locked, seq, issued, nalloc, Sequence, nfiles, ndirs, nbytes>>
    /\ IF last.op = "Setxattr"
       THEN /\ Len(val) = Len(nodes[last.to.n].XAttrs[last.to.name])
            /\ nodes' = [nodes EXCEPT ![last.to.n].XAttrs[last.to.name] = val]
       ELSE /\ Len(val) = last.res
            /\ UNCHANGED nodes
    /\ last' = [op |-> "PayloadChange", err |-> "nil"]

\* What Node.Getxattr answers for req.Name = name, req.Size = size: the value,
\* cut to size bytes when size is not 0; data[:size] panics when size is
\* beyond the capacity of the stored slice (its length, for a value stored
\* from a slice that is full).
GetxattrData(n, name, size) ==
    IF name \notin DOMAIN n.XAttrs THEN [err |-> "ErrNoXattr", data |-> <<>>]
    ELSE IF size = 0 THEN [err |-> "nil", data |-> n.XAttrs[name]]
    ELSE IF size > Len(n.XAttrs[name]) THEN [err |-> "panic", data |-> <<>>]
    ELSE [err |-> "nil", data |-> SubSeq(n.XAttrs[name], 1, size)]

\* Node.Getxattr on node n: no lock is taken and read-only is not tested.
Getxattr(n, name, size) ==
    /\ UNCHANGED fsvars
    /\ UNCHANGED <<seq, issued>>
    /\ last' = [op |-> "Getxattr", err |-> GetxattrData(nodes[n], name, size).err,
                res |-> GetxattrData(nodes[n], name, size).data]

\* Node.Listxattr on node n: the names, read without the lock.
Listxattr(n) ==
    /\ UNCHANGED fsvars
    /\ UNCHANGED <<seq, issued>>
    /\ last' = [op |-> "Listxattr", err |-> "nil", res |-> DOMAIN nodes[n].XAttrs]

\* The Dirents Dir.ReadDirAll builds for directory d: one (inode, type, name)
\* per entry of d.Children, the name being the child's own Name.  The
\* listing is indexed by the entries; their order is that of the map's
\* iteration and is not modelled.
Listing(nds, d) ==
    [k \in DOMAIN nds[d].Children |->
        LET c == nds[d].Children[k]
        IN  [Inode |-> nds[c].ID, isDir |-> nds[c].isDir, Name |-> nds[c].Name]]

\* Dir.ReadDirAll on directory d.
ReadDirAll(d) ==
    /\ ~locked
    /\ UNCHANGED fsvars
    /\ UNCHANGED <<seq, issued>>
    /\ last' = [op |-> "ReadDirAll", err |-> "nil",
                res |-> Listing(nodes, d)]

\* The payloads of the write requests.
Payloads == UNION {[1..n -> Byte] : n \in 0..MaxSize}

\* The payloads of the overlapping writes.
SpanPayloads == UNION {[1..n -> Byte] : n \in 0..MaxSpan}

\* The values of req.Mode.
Modes == {0, 1}

\* The names, values and sizes of the extended-attribute requests.
XNames == {"x"}
XVals == {<<1>>}
XSizes == {0, 2}

\* The names and values of the extended-attribute specification.
AttrNames == {"x", "y"}
AttrVals == {<<1>>, <<0, 1>>}
AttrSizes == {0, 1, 2, 3}

\* ---------------------------------------------------- stand-alone Sequence
\* A call of Next on the stand-alone Sequence.
SeqNext ==
    /\ UNCHANGED fsvars
    /\ LET r == SequenceNext(seq)
       IN  /\ seq' = r.s
           /\ last' = [op |-> "Next", err |-> r.err, res |-> r.val]
           /\ issued' = IF r.err = "nil"
                        THEN [issued EXCEPT !.cur = r.val, !.prev = issued.cur]
                        ELSE [issued EXCEPT !.failed = @ \/ r.err = "maximum", !.erred = TRUE]

\* sequence.New(min, max, step) for every choice that Init accepts.
InitSeq ==
    /\ InitFS
    /\ \E min \in 0..Mod - 1, max \in 0..Mod - 1, step \in 0..Mod - 1 :
          /\ ~SequenceInit(min, max, step).err
          /\ seq = SequenceInit(min, max, step).s

\* ------------------------------------------------------ concurrent handlers
\* The FUSE server runs each request in its own goroutine.  A thread is idle
\* or in one handler, at one of its places:
\*   "len"    Dir.ReadDirAll has read len(d.Children), before d.fs.Lock()
\*   "rx"     Node.Getxattr / Node.Listxattr is reading n.XAttrs (no lock)
\*   "lock"   at fs.Lock(), waiting for the mutex
\*   "cs"     in the locked region (the region's effect is that of the
\*            handler's action above, taken when the mutex is acquired)
\*   "lock2"  File.Setattr has unlocked and is at the Lock of Node.Setattr
\*   "cs2"    in the locked region of that Node.Setattr
\* holds: the thread has locked the mutex and not yet unlocked it.

\* sync.Mutex: locked by a running operation, or left locked by one that is gone.
MutexHeld == locked \/ \E u \in Threads : th[u].holds

\* The handlers that test the read-only flag before they lock.
TestsReadOnly == {"Create", "Mkdir", "Remove", "Rename", "Write", "Setattr", "Setxattr",
                  "Removexattr"}

\* The handlers that never lock.
Lockless == {"Getxattr", "Listxattr"}

\* The requests: handler, receiver n and arguments a (a Rename moves within
\* the root directory).
Requests ==
    LET R(op, N, A) == {[op |-> op, n |-> n, a |-> a] : n \in N, a \in A}
        files == Handles
        Names1 == {"a"}
    IN  R("Create", {Root}, {[NoArgs EXCEPT !.k = k] : k \in Names1})
        \cup R("Mkdir", {Root}, {[NoArgs EXCEPT !.k = k] : k \in Names1})
        \cup R("Remove", {Root}, {[NoArgs EXCEPT !.k = k] : k \in Names1})
        \cup R("Rename", {Root}, {[NoArgs EXCEPT !.k = k, !.j = j] : k \in Names1, j \in Names \ Names1})
        \cup R("Lookup", {Root}, {[NoArgs EXCEPT !.k = k] : k \in Names1})
        \cup R("ReadDirAll", {Root}, {NoArgs})
        \cup R("Write", files,
               {[NoArgs EXCEPT !.data = data] : data \in {[i \in 1..MaxConcSize |-> 1]}})
        \cup R("Read", files,
               {[NoArgs EXCEPT !.size = MaxConcSize]})
        \cup R("ReadAll", files, {NoArgs})
        \cup R("Setattr", files, {[NoArgs EXCEPT !.size = size] : size \in 0..MaxConcSize})
        \cup R("Setxattr", {Root}, {[NoArgs EXCEPT !.k = x, !.data = v] : x \in XNames, v \in XVals})
        \cup R("Removexattr", {Root}, {[NoArgs EXCEPT !.k = x] : x \in XNames})
        \cup R("Getxattr", {Root},
               {[NoArgs EXCEPT !.k = x, !.size = size] : x \in XNames, size \in XSizes})
        \cup R("Listxattr", {Root}, {NoArgs})

\* The handler of request r as one action: the read-only test and the locked
\* region (for the handlers that never lock: the whole handler).
Handler(r) ==
    \/ r.op = "Create" /\ Create(r.n, r.a.k, MaxConc)
    \/ r.op = "Mkdir" /\ Mkdir(r.n, r.a.k, MaxConc)
    \/ r.op = "Remove" /\ Remove(r.n, r.a.k)
    \/ r.op = "Rename" /\ Rename(r.n, r.a.k, Root, r.a.j)
    \/ r.op = "Lookup" /\ Lookup(r.n, r.a.k)
    \/ r.op = "ReadDirAll" /\ ReadDirAll(r.n)
    \/ r.op = "Write" /\ Write(r.n, r.a.off, r.a.data)
    \/ r.op = "Read" /\ Read(r.n, r.a.off, r.a.size)
    \/ r.op = "ReadAll" /\ ReadAll(r.n)
    \/ r.op = "Setattr" /\ FileSetattr(r.n, r.a.size)
    \/ r.op = "Setxattr" /\ Setxattr(r.n, r.a.k, r.a.data)
    \/ r.op = "Removexattr" /\ Removexattr(r.n, r.a.k)
    \/ r.op = "Getxattr" /\ Getxattr(r.n, r.a.k, r.a.size)
    \/ r.op = "Listxattr" /\ Listxattr(r.n)

\* The thread's place when it has made request r.
At(r, at, holds) == [at |-> at, holds |-> holds, op |-> r.op, n |-> r.n, a |-> r.a]

\* What the handler op writes on receiver n in its locked region: the
\* children of a directory, the buffer of a file, the extended attributes of
\* a node, the counters of the file system.
WritesOf(op, n) ==
    IF op \in {"Create", "Mkdir", "Remove", "Rename"}
    THEN {<<"Children", n>>, <<"counters", Nil>>}
    ELSE IF op = "Write" THEN {<<"Data", n>>, <<"counters", Nil>>}
    ELSE IF op = "Setattr" THEN {<<"Data", n>>}
    ELSE IF op \in {"Setxattr", "Removexattr"} THEN {<<"XAttrs", n>>}
    ELSE {}

\* What the handler op reads on receiver n.
ReadsOf(op, n) ==
    IF op \in {"Create", "Mkdir", "Remove", "Rename", "Lookup", "ReadDirAll"}
    THEN {<<"Children", n>>}
    ELSE IF op \in {"Write", "Read", "ReadAll", "Setattr"} THEN {<<"Data", n>>}
    ELSE IF op \in {"Getxattr", "Listxattr", "Removexattr"} THEN {<<"XAttrs", n>>}
    ELSE {}

\* What thread t is reading, and writing, at its place.
Reading(t) ==
    IF th[t].at = "len" THEN {<<"Children", th[t].n>>}
    ELSE IF th[t].at \in {"rx", "cs"} THEN ReadsOf(th[t].op, th[t].n)
    ELSE {}

Writing(t) == IF th[t].at = "cs" THEN WritesOf(th[t].op, th[t].n) ELSE {}

\* Thread t is handed request r.  A handler with the read-only test returns
\* at once on a read-only file system; ReadDirAll first sizes its answer by
\* len(d.Children); Getxattr and Listxattr go on without the lock; the others
\* come to fs.Lock().  The caller keeps the file it names.
Call(t, r) ==
    /\ th[t].at = "idle"
    /\ IF readonly /\ r.op \in TestsReadOnly
       THEN Handler(r) /\ UNCHANGED th
       ELSE /\ th' = [th EXCEPT ![t] =
                        At(r, IF r.op \in Lockless THEN "rx"
                              ELSE IF r.op = "ReadDirAll" THEN "len" ELSE "lock", FALSE)]
            /\ held' = held \cup ({r.n} \ {Root})
            /\ UNCHANGED <<nodes, nalloc, Sequence, nfiles, ndirs, nbytes, readonly, locked,
                           last, seq, issued>>

\* Dir.ReadDirAll goes from make(..., len(d.Children)) on to d.fs.Lock().
Sized(t) ==
    /\ th[t].at = "len"
    /\ th' = [th EXCEPT ![t].at = "lock"]
    /\ UNCHANGED <<fsvars, last, seq, issued>>

\* Node.Getxattr / Node.Listxattr returns what it has read.
Answer(t) ==
    /\ th[t].at = "rx"
    /\ Handler(th[t])
    /\ th' = [th EXCEPT ![t] = Idle]

\* fs.Lock() succeeds for thread t and the locked region runs (the arguments
\* are of no use after it, except in File.Setattr, which hands its request on
\* to Node.Setattr).  A panic in File.Setattr ends the operation with
\* the mutex locked (locked'); in the handlers whose Unlock is deferred the
\* thread goes on to unlock.
Acquire(t) ==
    /\ th[t].at = "lock"
    /\ ~MutexHeld
    /\ Handler(th[t])
    /\ th' = [th EXCEPT ![t] = IF locked' THEN Idle
                               ELSE [th[t] EXCEPT !.at = "cs", !.holds = TRUE,
                                                  !.a = IF th[t].op = "Setattr" THEN @ ELSE NoArgs]]

\* File.Setattr without its f.fs.Unlock(): it goes to Node.Setattr holding
\* the mutex.
SetattrKeepsLock(t) == [th[t] EXCEPT !.at = "lock2"]

\* File.Setattr after the resize: f.fs.Unlock(), then the call of
\* f.Node.Setattr, which comes to n.fs.Lock().
SetattrUnlock(t) == [th[t] EXCEPT !.at = "lock2", !.holds = FALSE]

\* fs.Unlock() at the end of the locked region; the handler returns, but
\* File.Setattr goes on to Node.Setattr.
Release(t) ==
    /\ th[t].at = "cs"
    /\ th' = [th EXCEPT ![t] = IF th[t].op = "Setattr" THEN SetattrUnlock(t) ELSE Idle]
    /\ UNCHANGED <<fsvars, last, seq, issued>>

\* Node.Setattr called by File.Setattr: n.fs.Lock() succeeds; the request
\* holds only the size, so no attribute is assigned and the response is the
\* attributes as they are now.
Acquire2(t) ==
    /\ th[t].at = "lock2"
    /\ ~MutexHeld
    /\ th' = [th EXCEPT ![t].at = "cs2", ![t].holds = TRUE]
    /\ last' = [op |-> "Setattr", err |-> "nil", res |-> nodes[th[t].n].Size]
    /\ UNCHANGED <<fsvars, seq, issued>>

\* The deferred n.fs.Unlock() of that Node.Setattr; File.Setattr returns.
Release2(t) ==
    /\ th[t].at = "cs2"
    /\ th' = [th EXCEPT ![t] = Idle]
    /\ UNCHANGED <<fsvars, last, seq, issued>>

\* ----------------------------------------------------------- specifications
\* The tree: every directory operation on every directory.
Next ==
    \/ /\ \E d \in Dirs, name \in Names : Create(d, name, MaxNodes)
       /\ UNCHANGED th
    \/ /\ \E d \in Dirs, name \in Names : Mkdir(d, name, MaxNodes)
       /\ UNCHANGED th
    \/ /\ \E d \in Dirs, name \in Names : Remove(d, name)
       /\ UNCHANGED th
    \/ /\ \E d \in Dirs, OldName \in Names, newDir \in Reachable(nodes), NewName \in Names :
             Rename(d, OldName, newDir, NewName)
       /\ UNCHANGED th
    \/ /\ \E d \in Dirs, name \in Names : Lookup(d, name)
       /\ UNCHANGED th

Spec == Init /\ [][Next]_vars

\* The files of the root directory: created, written, resized, read, removed.
NextFile ==
    \/ /\ \E name \in Names : Create(Root, name, MaxFiles)
       /\ UNCHANGED th
    \/ /\ \E name \in Names : Remove(Root, name)
       /\ UNCHANGED th
    \/ /\ \E f \in Files, off \in 0..MaxSize, data \in Payloads :
             off + Len(data) <= MaxSize /\ Write(f, off, data)
       /\ UNCHANGED th
    \/ /\ \E f \in Files, size \in 0..MaxSize : FileSetattr(f, size)
       /\ UNCHANGED th
    \/ /\ \E f \in Files, off \in 0..MaxSize, size \in 0..MaxSize : Read(f, off, size)
       /\ UNCHANGED th
    \/ /\ \E f \in Files : ReadAll(f)
       /\ UNCHANGED th

SpecFile == Init /\ [][NextFile]_vars

\* The identifiers: nodes made and removed in the root directory until the
\* Sequence of the file system has been through all its values.
NextIds ==
    \/ /\ \E name \in Names : Create(Root, name, MaxIds)
       /\ UNCHANGED th
    \/ /\ \E name \in Names : Mkdir(Root, name, MaxIds)
       /\ UNCHANGED th
    \/ /\ \E name \in Names : Remove(Root, name)
       /\ UNCHANGED th

SpecIds == Init /\ [][NextIds]_vars

\* The read-only test: every operation that has one, on the root directory
\* and on files made with File.Init, with the file system read-only or not.
NextRO ==
    \/ /\ \E name \in Names : FileInit(name, MaxRO)
       /\ UNCHANGED th
    \/ /\ \E name \in Names : Create(Root, name, MaxRO)
       /\ UNCHANGED th
    \/ /\ \E name \in Names : Mkdir(Root, name, MaxRO)
       /\ UNCHANGED th
    \/ /\ \E name \in Names : Remove(Root, name)
       /\ UNCHANGED th
    \/ /\ \E OldName \in Names, newDir \in DOMAIN nodes, NewName \in Names :
             Rename(Root, OldName, newDir, NewName)
       /\ UNCHANGED th
    \/ /\ \E f \in Handles, off \in 0..MaxROSize, data \in Payloads :
             off + Len(data) <= MaxROSize /\ Write(f, off, data)
       /\ UNCHANGED th
    \/ /\ \E f \in Handles, size \in 0..MaxROSize : FileSetattr(f, size)
       /\ UNCHANGED th
    \/ /\ \E n \in DOMAIN nodes, mode \in Modes : NodeSetattr(n, mode)
       /\ UNCHANGED th
    \/ /\ \E f \in Handles : Flush(f)
       /\ UNCHANGED th

SpecRO == Init /\ [][NextRO]_vars

\* The handlers run by NThreads threads, interleaved at their lock operations.
NextConc ==
    \/ \E t \in Threads, r \in Requests : Call(t, r)
    \/ \E t \in Threads : Sized(t)
    \/ \E t \in Threads : Answer(t)
    \/ \E t \in Threads : Acquire(t)
    \/ \E t \in Threads : Release(t)
    \/ \E t \in Threads : Acquire2(t)
    \/ \E t \in Threads : Release2(t)

SpecConc == Init /\ [][NextConc]_vars

\* A Sequence of its own, called again and again.
NextSeq == SeqNext /\ UNCHANGED th

SpecSeq == InitSeq /\ [][NextSeq]_vars

\* Writes to the files of the root, one after the other.
NextSpan ==
    \/ /\ \E name \in Names : Create(Root, name, MaxFiles)
       /\ UNCHANGED th
    \/ /\ \E f \in Files, off \in 0..MaxSpan, data \in SpanPayloads :
             off + Len(data) <= MaxSpan /\ Write(f, off, data)
       /\ UNCHANGED th

SpecSpan == Init /\ [][NextSpan]_vars

\* Setattr requests to the directories.
NextAttr ==
    /\ \E n \in Dirs, req \in SetattrRequests :
          NodeSetattrRequest(n, req.Valid, req.val, req.now)
    /\ UNCHANGED th

SpecAttr == Init /\ [][NextAttr]_vars

\* The tree handlers and the listing of the directories.
NextList ==
    \/ /\ \E d \in Dirs, name \in Names : Create(d, name, MaxNodes)
       /\ UNCHANGED th
    \/ /\ \E d \in Dirs, name \in Names : Mkdir(d, name, MaxNodes)
       /\ UNCHANGED th
    \/ /\ \E d \in Dirs, name \in Names : Remove(d, name)
       /\ UNCHANGED th
    \/ /\ \E d \in Dirs, OldName \in Names, newDir \in Reachable(nodes), NewName \in Names :
             Rename(d, OldName, newDir, NewName)
       /\ UNCHANGED th
    \/ /\ \E d \in Dirs : ReadDirAll(d)
       /\ UNCHANGED th

SpecList == Init /\ [][NextList]_vars

\* Reads and writes of buffers and values, and callers that keep using the
\* slices they passed in.
NextAlias ==
    \/ /\ \E name \in Names : Create(Root, name, MaxFiles)
       /\ UNCHANGED th
    \/ /\ \E f \in Files, off \in 0..MaxSize, data \in Payloads :
             off + Len(data) <= MaxSize /\ Write(f, off, data)
       /\ UNCHANGED th
    \/ /\ \E f \in Files, size \in 0..MaxSize : FileSetattr(f, size)
       /\ UNCHANGED th
    \/ /\ \E f \in Files, off \in 0..MaxSize, size \in 0..MaxSize : Read(f, off, size)
       /\ UNCHANGED th
    \/ /\ \E f \in Files : ReadAll(f)
       /\ UNCHANGED th
    \/ /\ \E name \in XNames, val \in AttrVals : Setxattr(Root, name, val)
       /\ UNCHANGED th
    \/ /\ \E name \in XNames : Getxattr(Root, name, 0)
       /\ UNCHANGED th
    \/ /\ \E val \in Payloads : PayloadChange(val)
       /\ UNCHANGED th

SpecAlias == Init /\ [][NextAlias]_vars

\* The extended attributes of the root and of the files made in it.
NextXattr ==
    \/ /\ \E name \in Names : Create(Root, name, MaxXNodes)
       /\ UNCHANGED th
    \/ /\ \E n \in DOMAIN nodes, name \in AttrNames, val \in AttrVals : Setxattr(n, name, val)
       /\ UNCHANGED th
    \/ /\ \E n \in DOMAIN nodes, name \in AttrNames : Removexattr(n, name)
       /\ UNCHANGED th
    \/ /\ \E n \in DOMAIN nodes, name \in AttrNames, size \in AttrSizes : Getxattr(n, name, size)
       /\ UNCHANGED th
    \/ /\ \E n \in DOMAIN nodes : Listxattr(n)
       /\ UNCHANGED th

SpecXattr == Init /\ [][NextXattr]_vars

\* ------------------------------------------------------------------ claims
\* Where node p is stored: the (directory, name) pairs of reachable
\* directories whose entry is p.
Places(p) ==
    {dk \in Dirs \X Names :
        dk[2] \in DOMAIN nodes[dk[1]].Children /\ nodes[dk[1]].Children[dk[2]] = p}

RECURSIVE SumLen(_)
SumLen(S) ==
    IF S = {} THEN 0
    ELSE LET f == CHOOSE x \in S : TRUE
         IN  Len(nodes[f].Data) + SumLen(S \ {f})

\* C1: after any sequence of Create, Mkdir, Remove and Rename, nfiles is the
\* number of File nodes reachable from the root and ndirs the number of
\* Directory nodes reachable from it, the root counted as at construction
\* (ndirs is 0 when only the root exists).
C1_CountersMatchTree ==
    /\ nfiles = Cardinality(Files)
    /\ ndirs = Cardinality(Dirs \ {Root})

\* C2: after any sequence of Write, File.Setattr(size), Create and Remove,
\* nbytes is the sum of the buffer lengths of the File nodes reachable from
\* the root.
C2_BytesMatchBuffers == nbytes = SumLen(Files)

\* C3: between operations the length of every file's buffer equals its size
\* attribute, whatever Write and Setattr(size = N) calls came before.
C3_SizeIsLength == \A f \in Files : Len(nodes[f].Data) = nodes[f].Size

\* C4: every node reachable from the root, the root apart, is stored in
\* exactly one directory under exactly one name, and its Parent is that
\* directory.
C4_OnePlaceAndParent ==
    \A p \in Reachable(nodes) \ {Root} :
        /\ Cardinality(Places(p)) = 1
        /\ \A dk \in Places(p) : nodes[p].Parent = dk[1]

\* C5: every node made by Create or Mkdir has an identity that is not zero,
\* differs from every other node's and is greater than that of every node
\* made before it (pointers are handed out in the order of creation).
C5_FreshIncreasingIds ==
    \A p \in DOMAIN nodes \ {Root} :
        /\ nodes[p].ID # 0
        /\ \A q \in DOMAIN nodes : q < p => nodes[q].ID < nodes[p].ID

\* C6: the values a Sequence returns are strictly increasing, and once a
\* call has failed on the maximum bound every later call fails.
C6_IncreasingThenExhausted ==
    /\ issued.prev # 0 => issued.prev < issued.cur
    /\ issued.failed => last.err # "nil"

\* C7: a node reachable from the root stops being reachable only by a
\* successful Remove; no Create, Mkdir or Rename detaches a node.
C7_OnlyRemoveDetaches ==
    [][Reachable(nodes) \ Reachable(nodes') # {}
         => last'.op = "Remove" /\ last'.err = "nil"]_vars

\* name is, in directory d, a directory that has at least one child.
NonEmptyDirAt(d, name) ==
    /\ name \in DOMAIN nodes[d].Children
    /\ nodes[nodes[d].Children[name]].isDir
    /\ DOMAIN nodes[nodes[d].Children[name]].Children # {}

OtherEntriesKept(d, name) ==
    \A e \in Dirs, k \in Names :
        <<e, k>> # <<d, name>> =>
            IF e \in DOMAIN nodes'
            THEN /\ (k \in DOMAIN nodes'[e].Children) = (k \in DOMAIN nodes[e].Children)
                 /\ k \in DOMAIN nodes[e].Children
                      => nodes'[e].Children[k] = nodes[e].Children[k]
            ELSE k \notin DOMAIN nodes[e].Children

C10_RenameMoves ==
    [][\A d \in Dirs, OldName \in Names, newDir \in Dirs, NewName \in Names :
          Rename(d, OldName, newDir, NewName) /\ last'.err = "nil"
            => LET ent == nodes[d].Children[OldName]
               IN  /\ newDir \in DOMAIN nodes' /\ d \in DOMAIN nodes' /\ ent \in DOMAIN nodes'
                   /\ NewName \in DOMAIN nodes'[newDir].Children
                   /\ nodes'[newDir].Children[NewName] = ent
                   /\ nodes'[ent].ID = nodes[ent].ID
                   /\ (d # newDir \/ OldName # NewName)
                        => ~(/\ OldName \in DOMAIN nodes'[d].Children
                             /\ nodes'[d].Children[OldName] = ent)]_vars
\* The operations that test the read-only flag (Setattr: File.Setattr with a
\* size, NodeSetattr: Node.Setattr, which File.Setattr without a size comes
\* down to).
Guarded == {"Create", "Mkdir", "Remove", "Rename", "Write", "Setattr", "NodeSetattr", "Flush"}

\* C11: on a file system constructed read-only, every Create, Mkdir, Remove,
\* Rename, Write, Setattr (of a node or a file, with or without a size) and
\* Flush returns the permission error and changes no children, buffer,
\* attribute, extended attribute or counter (nor the Sequence or the lock).
C11_ReadOnlyRefuses ==
    [][readonly /\ last'.op \in Guarded
         => /\ last'.err = "EPERM"
            /\ UNCHANGED <<nodes, nfiles, ndirs, nbytes, Sequence, nalloc, locked>>]_vars

C11_Witness ==
    /\ readonly
    /\ last.op = "Write" /\ last.err = "EPERM"
    /\ Handles # {}
\* C12: a Write(offset, payload) that ends beyond the buffer's length L makes
\* the length and the size attribute offset + len(payload), adds exactly the
\* difference to nbytes, keeps the old bytes before min(offset, L), leaves
\* zeros from L up to offset, stores the payload from offset on, and reports
\* len(payload) bytes written.
C12_WriteGrows ==
    [][last'.op = "Write" /\ last'.err = "nil" =>
       \A f \in Files : (\A g \in DOMAIN nodes \ {f} : nodes'[g] = nodes[g]) =>
       \A off \in 0..MaxSize, data \in Payloads :
          /\ off + Len(data) <= MaxSize
          /\ off + Len(data) > Len(nodes[f].Data)
          /\ Write(f, off, data)
          => LET L == Len(nodes[f].Data)
                 end == off + Len(data)
                 new == nodes'[f].Data
             IN  /\ Len(new) = end
                 /\ nodes'[f].Size = end
                 /\ nbytes' = nbytes + (end - L)
                 /\ \A i \in 1..Min(off, L) : new[i] = nodes[f].Data[i]
                 /\ \A i \in (L + 1)..off : new[i] = 0
                 /\ \A i \in 1..Len(data) : new[off + i] = data[i]
                 /\ last'.res = Len(data)]_vars

C12_Witness ==
    /\ last.op = "Write" /\ last.err = "nil" /\ last.grew /\ last.res = 1
    /\ \E f \in Files : nodes[f].Data = <<0, 1>> /\ nodes[f].Size = 2
    /\ nbytes = 2
\* C13: for any file, any offset up to its size and any payload, a Read of
\* len(payload) bytes at the offset right after Write(offset, payload) returns
\* the payload; a ReadAll right after a buffer was written at offset 0 into an
\* empty file returns that buffer.
C13_WriteThenRead ==
    [][last'.op = "Write" /\ last'.err = "nil" =>
       \A f \in Files : (\A g \in DOMAIN nodes \ {f} : nodes'[g] = nodes[g]) =>
       \A off \in 0..MaxSize, data \in Payloads :
          /\ off + Len(data) <= MaxSize /\ last'.res = Len(data)
          /\ Write(f, off, data)
          => /\ off <= nodes[f].Size
                  => ReadData(nodes'[f], off, Len(data)) = [err |-> "nil", data |-> data]
             /\ off = 0 /\ nodes[f].Size = 0 /\ nodes[f].Data = <<>>
                  => ReadAllData(nodes'[f]) = data]_vars

C13_Witness ==
    /\ last.op = "Read" /\ last.err = "nil" /\ last.res = <<1, 0>>
    /\ nbytes > 0
\* C14: for every offset and size, Read(offset, size) on a file of size S
\* returns without error the bytes from offset up to min(offset + size, S);
\* with the offset beyond S the result is empty, not a failure.
C14_ReadWithinSize ==
    [][\A f \in Files, off \in 0..MaxSize, size \in 0..MaxSize :
          Read(f, off, size)
          => /\ last'.err = "nil"
             /\ last'.res = SubSeq(nodes[f].Data, off + 1, Min(off + size, nodes[f].Size))]_vars

\* C15: File.Setattr with a size N not above the current size leaves the
\* first N bytes of the buffer, sets the size attribute to N and answers with
\* attributes whose size is N; with N the current size the buffer is as before.
C15_SetattrTruncates ==
    [][\A f \in Files, N \in 0..MaxSize :
          last'.op = "Setattr" /\ FileSetattr(f, N) /\ ~readonly /\ N <= nodes[f].Size
          => /\ last'.err = "nil" /\ last'.res = N
             /\ nodes'[f].Data = SubSeq(nodes[f].Data, 1, N)
             /\ nodes'[f].Size = N
             /\ N = nodes[f].Size => nodes'[f].Data = nodes[f].Data]_vars

C15_Witness ==
    /\ last.op = "Setattr" /\ last.err = "nil" /\ last.res = 1
    /\ \E f \in Files : Len(nodes[f].Data) = 1 /\ nodes[f].Size = 1 /\ Len(nodes[f].Spare) = 1
\* The handlers the serialization is stated for.
Serialized == {"Create", "Mkdir", "Remove", "Rename", "Lookup", "ReadDirAll", "Write", "Read",
               "ReadAll", "Setattr", "Setxattr", "Removexattr"}

\* C16: under any interleaving of Create, Mkdir, Remove, Rename, Lookup,
\* ReadDirAll, Write, Read, ReadAll, Setattr, Setxattr and Removexattr at most
\* one operation is between its lock and its unlock, and each of them reads
\* and updates children, buffers and counters only there.
C16_Serialized ==
    /\ Cardinality({t \in Threads : th[t].holds}) <= 1
    /\ locked => \A t \in Threads : ~th[t].holds
    /\ \A t \in Threads :
          /\ th[t].op \in Serialized
          /\ \E x \in Reading(t) \cup Writing(t) : x[1] \in {"Children", "Data", "counters"}
          => th[t].holds

\* C17: every read or write of a children mapping, a file buffer, an
\* extended-attribute mapping or a counter, by any operation (Getxattr,
\* Listxattr and ReadDirAll too), is made holding the lock, and no operation
\* reads such state while another one is writing it.
C17_AllUnderLock ==
    /\ \A t \in Threads : Reading(t) \cup Writing(t) # {} => th[t].holds
    /\ \A t \in Threads, u \in Threads : t # u => Reading(t) \cap Writing(u) = {}

C19_EndsUnlocked ==
    (\A t \in Threads : th[t].at = "idle") => ~MutexHeld

\* C20: no operation panics, whatever the request: every call ends with a
\* result or an error value.
C20_NoPanic == last.err # "panic"

\* The units of BlockUnit bytes that hold size bytes.
Units(size) == (size + BlockUnit - 1) \div BlockUnit

\* C21: after every successful Write and every successful File.Setattr the
\* Blocks attribute of the file the call changed is the number of 512-byte
\* units that hold its size, ceil(size / 512).
C21_BlocksMatchSize ==
    [][last'.op \in {"Write", "Setattr"} /\ last'.err = "nil" =>
       \A f \in Files :
          f \in DOMAIN nodes' /\ nodes'[f] # nodes[f]
          => nodes'[f].Blocks = Units(nodes'[f].Size)]_vars

\* The names a Getxattr for the whole value finds on node record n.
Stored(n) == {k \in AttrNames : GetxattrData(n, k, 0).err = "nil"}

\* C22: on a writable file system, for every node: Setxattr(name, bytes)
\* makes a following Getxattr(name) return bytes, whatever was stored before,
\* and touches no other name; Listxattr returns exactly the names stored;
\* Removexattr of a stored name makes a following Getxattr(name) return
\* NoAttribute; Getxattr and Removexattr of a name not stored return
\* NoAttribute and change nothing.
C22_XattrStore ==
    [][~readonly =>
       \A n \in DOMAIN nodes, name \in AttrNames :
          /\ \A val \in AttrVals :
                Setxattr(n, name, val)
                => /\ last'.err = "nil"
                   /\ GetxattrData(nodes'[n], name, 0) = [err |-> "nil", data |-> val]
                   /\ \A k \in AttrNames \ {name} :
                         GetxattrData(nodes'[n], k, 0) = GetxattrData(nodes[n], k, 0)
          /\ Removexattr(n, name) /\ name \in Stored(nodes[n])
                => /\ last'.err = "nil"
                   /\ GetxattrData(nodes'[n], name, 0).err = "ErrNoXattr"
                   /\ Stored(nodes'[n]) = Stored(nodes[n]) \ {name}
          /\ Removexattr(n, name) /\ name \notin Stored(nodes[n])
                => last'.err = "ErrNoXattr" /\ UNCHANGED nodes
          /\ Getxattr(n, name, 0) /\ name \notin Stored(nodes[n])
                => last'.err = "ErrNoXattr" /\ UNCHANGED nodes
          /\ Listxattr(n)
                => last'.err = "nil" /\ last'.res = Stored(nodes[n])]_vars

C22_Witness ==
    /\ ~readonly
    /\ last.op = "Getxattr" /\ last.err = "nil" /\ last.res = <<0, 1>>
    /\ \E n \in DOMAIN nodes : Stored(nodes[n]) = {"y"} /\ nodes[n].XAttrs["y"] = <<0, 1>>

\* C23: on a read-only file system each of Getxattr, Setxattr, Listxattr and
\* Removexattr returns PermissionDenied and leaves the extended attributes of
\* every node unchanged.
C23_XattrReadOnly ==
    [][readonly /\ last'.op \in {"Getxattr", "Setxattr", "Listxattr", "Removexattr"}
         => last'.err = "EPERM" /\ UNCHANGED nodes]_vars

\* C24: on a writable file system Lookup(name) and Remove(name) on a
\* directory with no child under name both return the NotFound error and
\* leave the children of every directory and all counters unchanged.
C24_AbsentNotFound ==
    [][~readonly /\ last'.op \in {"Lookup", "Remove"} =>
       \A d \in Dirs, name \in Names :
          /\ name \notin DOMAIN nodes[d].Children
          /\ Lookup(d, name) \/ Remove(d, name)
          => /\ last'.err = "ENOENT"
             /\ UNCHANGED <<nodes, nfiles, ndirs, nbytes>>]_vars

\* C25: on a writable file system Rename(oldName, destination, newName)
\* returns NotFound when oldName is not a child of the source directory and
\* TypeMismatch when the destination is not a directory (one of the two when
\* both are the case); in these cases the children of every directory, every
\* node's name and all counters are unchanged.
C25_RenameRefuses ==
    [][~readonly /\ last'.op = "Rename" =>
       \A d \in Dirs, OldName \in Names, newDir \in Reachable(nodes), NewName \in Names :
          LET absent  == OldName \notin DOMAIN nodes[d].Children
              notADir == ~nodes[newDir].isDir
          IN  Rename(d, OldName, newDir, NewName) /\ (absent \/ notADir)
              => /\ last'.err \in (IF absent THEN {"ENOENT"} ELSE {})
                                    \cup (IF notADir THEN {"ENOTDIR"} ELSE {})
                 /\ UNCHANGED <<nodes, nfiles, ndirs, nbytes>>]_vars

\* C26: a Sequence initialised with (min, max, step) returns from successive
\* Next calls min, min + step, min + 2 * step, ... in that order while the
\* value is not above max, and the call after the last such value, the first
\* call to fail, returns an error.
C26_SequenceProgression ==
    [][last'.op = "Next" /\ ~issued.erred =>
       LET want == IF issued.cur = 0 THEN seq.minvalue ELSE issued.cur + seq.increment
       IN  IF want <= seq.maxvalue
           THEN last'.err = "nil" /\ last'.res = want
           ELSE last'.err # "nil"]_vars

\* C27: Create(name) on a writable directory always succeeds, also when a
\* child called name exists: afterwards the directory's entry under name is
\* the newly made File, whose identifier is not zero and is no other node's,
\* whose size is 0 and whose buffer is empty, and nfiles has gone up by one.
C27_CreateOverwrites ==
    [][~readonly /\ last'.op = "Create" =>
       \A d \in Dirs, name \in Names :
          Create(d, name, MaxIds)
          => /\ last'.err = "nil"
             /\ name \in DOMAIN nodes'[d].Children
             /\ LET f == nodes'[d].Children[name]
                IN  /\ f \notin DOMAIN nodes
                    /\ ~nodes'[f].isDir
                    /\ nodes'[f].ID # 0
                    /\ \A q \in DOMAIN nodes' \ {f} : nodes'[q].ID # nodes'[f].ID
                    /\ nodes'[f].Size = 0 /\ nodes'[f].Data = <<>>
             /\ nfiles' = Wrap(nfiles + 1)]_vars

C29_OverlappingWrite ==
    [][last'.op = "Write" /\ last'.err = "nil" =>
       \A f \in Files : (\A g \in DOMAIN nodes \ {f} : nodes'[g] = nodes[g]) =>
       \A off \in 0..MaxSpan, data \in SpanPayloads :
          /\ off + Len(data) <= MaxSpan
          /\ off < nodes[f].Size /\ nodes[f].Size < off + Len(data)
          /\ Write(f, off, data)
          => /\ nodes'[f].Size = off + Len(data)
             /\ Len(nodes'[f].Data) = off + Len(data)
             /\ \A i \in 1..off : nodes'[f].Data[i] = nodes[f].Data[i]
             /\ \A i \in 1..Len(data) : nodes'[f].Data[off + i] = data[i]]_vars

\* A file of two bytes has been written at offset 1 with two bytes.
C29_Witness ==
    /\ last.op = "Write" /\ last.err = "nil" /\ last.res = 2 /\ last.by = 1
    /\ \E f \in Files : nodes[f].Size = 3 /\ nodes[f].Data = <<1, 0, 1>>

\* The bits of req.Valid that Node.Setattr accepts and does not store.
Ignored == {"Handle", "LockOwner", "Bkuptime", "Chgtime", "Size"}

\* The bits that mark the stored field a: its own, and for the two times
\* the bit that asks for the present time.
Marks(a) ==
    {a} \cup (IF a = "Atime" THEN {"AtimeNow"} ELSE IF a = "Mtime" THEN {"MtimeNow"} ELSE {})

\* C30: Node.Setattr on a writable file system gives every attribute among
\* atime, mtime, mode, uid, gid, crtime and flags that the request marks the
\* request's value and leaves every attribute it does not mark, and every
\* other field of every node, as it was; a request with only handle,
\* lock-owner, backup-time or change-time bits, or the size bit on a
\* directory, changes nothing; the response is the node's attributes after
\* the update.
C30_SetattrPartial ==
    [][~readonly /\ last'.op = "NodeSetattr" =>
       \A n \in Dirs, req \in SetattrRequests :
          NodeSetattrRequest(n, req.Valid, req.val, req.now)
          => /\ last'.err = "nil"
             /\ \A a \in Settable :
                   /\ a \in req.Valid /\ Marks(a) \cap req.Valid = {a}
                         => nodes'[n][a] = req.val[a]
                   /\ Marks(a) \cap req.Valid = {} => nodes'[n][a] = nodes[n][a]
             /\ \A a \in DOMAIN nodes[n] \ Settable : nodes'[n][a] = nodes[n][a]
             /\ \A m \in DOMAIN nodes \ {n} : nodes'[m] = nodes[m]
             /\ req.Valid \subseteq Ignored => nodes' = nodes
             /\ last'.res = Attrs(nodes'[n])]_vars

C30_Witness ==
    /\ ~readonly
    /\ last.op = "NodeSetattr" /\ last.err = "nil"
    /\ nodes[Root].Uid = 1 /\ nodes[Root].Gid = 0 /\ nodes[Root].Mode = 1
    /\ nodes[Root].Mtime = 1 /\ nodes[Root].Flags = 1
    /\ last.res = Attrs(nodes[Root])

\* C31: Getxattr(name, maxLen) for a stored value b returns b whole when
\* maxLen is 0 or at least len(b), and the first maxLen bytes of b when
\* 0 < maxLen < len(b); it never fails for a stored name.
C31_GetxattrTruncates ==
    [][last'.op = "Getxattr" =>
       \A n \in DOMAIN nodes, name \in AttrNames, size \in AttrSizes :
          name \in DOMAIN nodes[n].XAttrs /\ Getxattr(n, name, size)
          => LET b == nodes[n].XAttrs[name]
             IN  /\ last'.err = "nil"
                 /\ last'.res = IF size = 0 \/ size >= Len(b) THEN b ELSE SubSeq(b, 1, size)]_vars

\* C32: after any Create, Mkdir, Remove and Rename operations ReadDirAll on a
\* directory returns one entry per child, the names of the entries are the
\* names under which Lookup succeeds in the directory, and each entry has the
\* identity and the type of the child Lookup finds under its name.
C32_ListingMatchesLookup ==
    [][last'.op = "ReadDirAll" =>
       \A d \in Dirs :
          ReadDirAll(d)
          => LET L == last'.res
                 found == DOMAIN nodes[d].Children
             IN  /\ Cardinality(DOMAIN L) = Cardinality(Kids(nodes, d))
                 /\ {L[e].Name : e \in DOMAIN L} = found
                 /\ \A e \in DOMAIN L :
                       L[e].Name \in found
                       => /\ L[e].Inode = nodes[nodes[d].Children[L[e].Name]].ID
                          /\ L[e].isDir = nodes[nodes[d].Children[L[e].Name]].isDir]_vars

\* The bytes the slice a Read or ReadAll returned shows in node record n: the
\* part of the array from index lo that is as long as the result res.
Shown(n, lo, res) == SubSeq(n.Data \o n.Spare, lo + 1, lo + Len(res))

\* C33: the bytes Read and ReadAll have returned stay as they were returned
\* when a Write or a Setattr on the same file follows that keeps the file's
\* array, and a caller that changes its payload after Write or Setxattr has
\* returned changes no stored buffer and no stored value.
C33_ResultsAndPayloadsFixed ==
    [][/\ last.op \in {"Read", "ReadAll"} /\ last.err = "nil"
          /\ last'.op \in {"Write", "Setattr"} /\ last'.err = "nil"
          => \A off \in 0..MaxSize, data \in Payloads, size \in 0..MaxSize :
                \/ /\ off + Len(data) <= MaxSize
                   /\ WriteGrowth(nodes[last.from.n], off, data) = 0
                   /\ Write(last.from.n, off, data)
                \/ FileSetattr(last.from.n, size)
                => Shown(nodes'[last.from.n], last.from.lo, last.res) = last.res
       /\ last'.op = "PayloadChange" => UNCHANGED nodes]_vars

\* C34: in every directory reachable from the root each child is stored
\* under a key that equals the child's own Name.
C34_KeyIsName ==
    \A d \in Dirs : \A k \in DOMAIN nodes[d].Children :
        nodes[nodes[d].Children[k]].Name = k

\* C35: Rename(name, d, name) on directory d for a child that exists leaves
\* the same node stored under name in d and the number of d's children as it
\* was.
C35_RenameOntoItself ==
    [][last'.op = "Rename" =>
       \A d \in Dirs, name \in Names :
          name \in DOMAIN nodes[d].Children /\ Rename(d, name, d, name)
          => /\ name \in DOMAIN nodes'[d].Children
             /\ nodes'[d].Children[name] = nodes[d].Children[name]
             /\ Cardinality(DOMAIN nodes'[d].Children) = Cardinality(DOMAIN nodes[d].Children)]_vars

\* C36: no directory reachable from the root is its own child or descendant.
C36_ChildrenAcyclic ==
    \A d \in Dirs : d \notin Closure(nodes, Kids(nodes, d), FALSE)

\* C37: the counters nfiles and ndirs are never taken below zero.
C37_CountersNotNegative == Under(nfiles) = 0 /\ Under(ndirs) = 0

\* C38: File.Setattr(size = N) with N above the length of the buffer ends
\* with the buffer N bytes long and the size attribute N, the bytes that were
\* there unchanged and the added bytes zero (bytes cut off by an earlier
\* truncation do not come back).
C38_SetattrGrowsWithZeros ==
    [][last'.op = "Setattr" =>
       \A f \in Files, N \in 0..MaxSize :
          N > Len(nodes[f].Data) /\ FileSetattr(f, N)
          => /\ last'.err = "nil"
             /\ nodes'[f].Size = N
             /\ nodes'[f].Data = nodes[f].Data \o Zeros(N - Len(nodes[f].Data))]_vars

\* C39: the attributes a successful File.Setattr(size = N) answers with
\* report the size N, whatever other threads did between its resize and its
\* Node.Setattr.
C39_SnapshotReportsSize ==
    [][\A t \in Threads :
          th[t].at = "lock2" /\ th'[t].at = "cs2"
          => last'.err = "nil" /\ last'.res = th[t].a.size]_vars
====
